---- MODULE Spec2Model ----
(***************************************************************************)
(* Round-processing pipeline of the webhook service: the intake handler    *)
(* receive_request, the background worker process_request, the ledger file *)
(* behind load_processed / save_processed, and the generator adapter       *)
(* generate_app_code.  The ledger key, the scratch directory of            *)
(* decode_attachments, create_repo and decode_attachments are also studied *)
(* on their own, each under a specification of its own.                    *)
(*                                                                         *)
(* Text is a sequence of tokens.  A JSON object is a function whose domain *)
(* is the set of keys that are present.  A nullable value is a sequence:   *)
(* <<>> for None, <<v>> or a text otherwise.                               *)
(***************************************************************************)
EXTENDS Integers, Sequences, FiniteSets, TLC

VARIABLES
    ledger,      \* content of /tmp/processed_requests.json as load_processed reads it
    jobs,        \* process_request executions, in the order they were scheduled
    repoHead,    \* the latest commit on the task's repository, None while it has none
    notifLog,    \* calls made to notify_evaluation_server
    nReceived,   \* number of requests receive_request has handled
    last,        \* what the latest receive_request call did
    gen,         \* state of one generate_app_code call
    keyed,       \* two requests and the ledger keys computed for them
    scratch,     \* the files of /tmp/llm_attachments: name -> bytes
    workers,     \* round-1 process_request executions, as the scratch directory sees them
    repos,       \* names of the repositories that exist on the account
    callers,     \* create_repo calls: their argument, position and result
    dec          \* state of one decode_attachments call

\* the variables of the calls studied on their own, besides gen
attVars == <<scratch, workers>>
repoVars == <<repos, callers>>
studyVars == <<keyed, attVars, repoVars, dec>>

vars == <<ledger, jobs, repoHead, notifLog, nReceived, last, gen, studyVars>>

----------------------------------------------------------------------------
(* Bounds *)
MaxSubmits == 2
MaxBrief == 3

----------------------------------------------------------------------------
(* Values *)
None == <<>>
USER_SECRET == "s3cret"
USERNAME == "user"
Required == {"secret", "email", "task", "round", "nonce", "brief"}

Has(data, f) == f \in DOMAIN data
\* dict.get(f, default)
Get(data, f, default) == IF Has(data, f) THEN data[f] ELSE default

Emails == {<<"e">>}
Tasks == {<<"t">>}
Rounds == {1, 2}
Nonces == {<<"n">>}
Secrets == {USER_SECRET, "wrong"}

\* An attachment: its name, the mime type of its data: URI, and what its url is:
\* "data" a well-formed data: URI, "http" not a data: URI, "badb64" a data: URI
\* whose payload b64decode rejects (wrong padding), "junkb64" a data: URI whose
\* payload has characters outside the base64 alphabet, "absent" no "url" key,
\* "nonstr" a value that is not a string (a number, null).
Att(n, m, u) == [name |-> n, mime |-> m, url |-> u]
AttLists == { <<>>,
              << Att(<<"a", ".png">>, "image", "data"), Att(<<"x">>, "text", "http"),
                 Att(<<"b", ".csv">>, "application", "data") >>,
              << Att(<<"a", ".png">>, "image", "nonstr") >> }

FullRequests ==
    [ secret : Secrets, email : Emails, task : Tasks, round : Rounds,
      nonce : Nonces, brief : {<<"b">>}, attachments : AttLists,
      evaluation_url : {"url"} ]

Drop(data, f) == [ x \in (DOMAIN data) \ {f} |-> data[x] ]

\* The request bodies tried: complete ones, and ones that carry the configured
\* secret (if any) and lack one required field.
Requests ==
    FullRequests \cup
    { Drop(d, f) : d \in {x \in FullRequests : x["secret"] = USER_SECRET}, f \in Required }

----------------------------------------------------------------------------
(* Pure functions *)

\* str(round) in an f-string
RoundStr(r) == IF r = 1 THEN <<"1">> ELSE <<"2">>

\* f"{email}::{task}::round{round}::nonce{nonce}"
KeyOf(email, task, round, nonce) ==
    email \o <<":", ":">> \o task \o <<":", ":", "round">> \o RoundStr(round)
          \o <<":", ":", "nonce">> \o nonce

KeyOfData(data) == KeyOf(data["email"], data["task"], data["round"], data["nonce"])

\* f"https://{USERNAME}.github.io/{task_id}/"
PagesUrl(task) == <<"https://", USERNAME, ".github.io/">> \o task \o <<"/">>

\* line 28: TMP_DIR / name can be opened for writing; "/" names a directory
Writable(name) == name # <<"/">>

\* lines 19-22 are outside the try: url.startswith raises for a url that is not a
\* string, and the exception leaves decode_attachments
decode_attachments_raises(atts) ==
    \E i \in 1..Len(atts) : atts[i].url = "nonstr"

\* line 26: base64.b64decode(b64data) does not validate: it drops the characters
\* outside the alphabet and decodes the rest, it raises only for wrong padding
b64decode_returns(url) == url \in {"data", "junkb64"}

\* decode_attachments, when it returns: entries that are not data: URIs are skipped,
\* entries for which b64decode raises or whose file cannot be written are skipped,
\* the rest are kept in input order.
decode_attachments(atts) ==
    SelectSeq(atts, LAMBDA a : b64decode_returns(a.url) /\ Writable(a.name))

\* att["mime"].startswith("text") or att["name"].endswith((".md", ".csv", ".json", ".txt"))
IsTextAtt(a) ==
    \/ a.mime = "text"
    \/ Len(a.name) > 0 /\ a.name[Len(a.name)] \in {".md", ".csv", ".json", ".txt"}

\* f"attachments/{name}" and f"attachments/{name}.b64"
AttPath(a) == <<"attachments/">> \o a.name
B64Path(a) == <<"attachments/">> \o a.name \o <<".b64">>

----------------------------------------------------------------------------
(* The generator adapter.  Tokens of a text: "F" is a ``` fence, "M" the line *)
(* ---README.md---, "W" a whitespace character, anything else an ordinary    *)
(* character.                                                                *)

Contains(s, tok) == \E i \in 1..Len(s) : s[i] = tok
FirstIdx(s, tok) == CHOOSE i \in 1..Len(s) : s[i] = tok /\ \A j \in 1..(i-1) : s[j] # tok

\* str.split(tok)
RECURSIVE Split(_, _)
Split(s, tok) ==
    IF ~Contains(s, tok) THEN << s >>
    ELSE LET i == FirstIdx(s, tok)
         IN  << SubSeq(s, 1, i-1) >> \o Split(SubSeq(s, i+1, Len(s)), tok)

\* str.split(tok, 1) when tok occurs in s
Split1(s, tok) ==
    LET i == FirstIdx(s, tok) IN << SubSeq(s, 1, i-1), SubSeq(s, i+1, Len(s)) >>

\* str.strip()
RECURSIVE LStrip(_)
LStrip(s) == IF s # <<>> /\ Head(s) = "W" THEN LStrip(Tail(s)) ELSE s
RECURSIVE RStrip(_)
RStrip(s) == IF s # <<>> /\ s[Len(s)] = "W" THEN RStrip(SubSeq(s, 1, Len(s)-1)) ELSE s
Strip(s) == RStrip(LStrip(s))

_strip_code_block(text) ==
    IF Contains(text, "F")
    THEN LET parts == Split(text, "F")
         IN  IF Len(parts) >= 2 THEN Strip(parts[2]) ELSE Strip(text)
    ELSE Strip(text)

generate_readme_fallback(brief, checks_text, att_text, round_num) ==
    <<"#", "W">> \o RoundStr(round_num) \o <<"W">> \o brief \o <<"W">> \o att_text
        \o <<"W">> \o checks_text \o <<"W", "s", "W", "n", "W">>

\* the text the except branch builds
FallbackText(brief, checks_text, att_text, round_num) ==
    <<"W", "h">> \o brief \o <<"h", "W", "M", "W">>
        \o generate_readme_fallback(brief, checks_text, att_text, round_num) \o <<"W">>

\* What the call to the external generator ended in.  kind "text": the response
\* carried the text `text`; "nonstr": it carried a JSON number where the text is
\* expected; the other kinds end in the except branch.
GenFailures == {"timeout", "http_error", "bad_json", "no_output", "empty_text"}
GenOutcome(kind, text) == [kind |-> kind, text |-> text]

\* generate_app_code: [raised, files]
generate_app_code(brief, checks_text, att_text, round_num, outcome) ==
    IF outcome.kind = "nonstr"
    THEN [raised |-> TRUE, files |-> <<>>]
    ELSE
    LET text == IF outcome.kind \in GenFailures \/ outcome.text = <<>>
                THEN FallbackText(brief, checks_text, att_text, round_num)
                ELSE outcome.text
        code_part == IF Contains(text, "M")
                     THEN _strip_code_block(Split1(text, "M")[1])
                     ELSE _strip_code_block(text)
        readme_part == IF Contains(text, "M")
                       THEN _strip_code_block(Split1(text, "M")[2])
                       ELSE generate_readme_fallback(brief, checks_text, att_text, round_num)
    IN  [raised |-> FALSE,
         files |-> [f \in {"index.html", "README.md"} |->
                        IF f = "index.html" THEN code_part ELSE readme_part]]

----------------------------------------------------------------------------
(* The pipeline *)

NoSecret == "None"

\* summarize_attachment_meta: one line per saved attachment
RECURSIVE summarize_attachment_meta(_)
summarize_attachment_meta(saved) ==
    IF saved = <<>> THEN <<>>
    ELSE <<"-">> \o Head(saved).name \o <<"p">>
         \o (IF Tail(saved) = <<>> THEN <<>> ELSE <<"W">> \o summarize_attachment_meta(Tail(saved)))

\* What the generator answers in the pipeline runs.
PipelineGenOutcomes ==
    { GenOutcome("timeout", <<>>), GenOutcome("text", <<"c", "M", "c">>),
      GenOutcome("nonstr", <<>>) }

Effect(name) == << name >>

\* A commit is named by the execution and the step that made it: the commits of one
\* step are made together, so only the last of them is ever the latest commit.
Commit(j, step, idx) == << j, step, idx >>

NewJob(data) ==
    [ data |-> data, pc |-> "start", repo |-> "unset", saved |-> <<>>, idx |-> 1, files |-> {},
      did |-> {}, failed |-> {},
      payload |-> <<>>, processed |-> <<>> ]

JobIds == 1..Len(jobs)
At(j, pc) == j \in JobIds /\ jobs[j].pc = pc
SetJob(j, r) == jobs' = [jobs EXCEPT ![j] = r]

\* the payload dict of Step 8
Payload(data, round_num, commit_sha, pages_url) ==
    [ email |-> data["email"], task |-> data["task"], round |-> round_num,
      nonce |-> data["nonce"], repo_url |-> <<"repo/">> \o data["task"],
      commit_sha |-> commit_sha, pages_url |-> pages_url ]

\* What one receive_request call did: which required fields its request lacked,
\* whether its secret was the configured one, the ledger key it computed (None if it
\* computed none), the value it returned (or the exception
\* that left it), whether it read the ledger, called the notifier (and whether that
\* call succeeded), scheduled process_request.
Last(data, key, resp, read, notified, notify_ok, scheduled) ==
    [missing |-> Required \ DOMAIN data, key |-> key,
     secret_ok |-> Get(data, "secret", NoSecret) = USER_SECRET,
     resp |-> resp, read |-> read, notified |-> notified, notify_ok |-> notify_ok,
     scheduled |-> scheduled]

\* no generate_app_code call under study
NoGen == [called |-> FALSE]

\* no key computation under study
NoKeyed == [called |-> FALSE]

\* no decode_attachments call under study
NoDec == [called |-> FALSE]

Init ==
    /\ ledger = <<>>
    /\ jobs = <<>>
    /\ repoHead = None
    /\ notifLog = {}
    /\ nReceived = 0
    /\ last = Last(<<>>, None, "none", FALSE, FALSE, FALSE, FALSE)
    /\ gen = NoGen
    /\ keyed = NoKeyed
    /\ scratch = <<>> /\ workers = <<>>
    /\ repos = {} /\ callers = <<>>
    /\ dec = NoDec

\* the secret is never compared
SecretMismatch_Unchecked(data) == FALSE

\* line 178: data.get("secret") != USER_SECRET
SecretMismatch(data) == Get(data, "secret", NoSecret) # USER_SECRET

\* the lookup never hits
IsDuplicate_Never(processed, key) == FALSE

\* line 186: key in processed
IsDuplicate(processed, key) == key \in DOMAIN processed

\* a call of notify_evaluation_server, by receive_request call n or by execution n
Notification(by, n, key, payload) == [by |-> by, n |-> n, key |-> key, payload |-> payload]

\* receive_request, the whole handler
receive_request(data) ==
    /\ nReceived < MaxSubmits
    /\ nReceived' = nReceived + 1
    /\ UNCHANGED <<ledger, repoHead, gen, studyVars>>
    /\ IF SecretMismatch(data)
       THEN /\ last' = Last(data, None, "Invalid secret", FALSE, FALSE, FALSE, FALSE)
            /\ UNCHANGED <<jobs, notifLog>>
       ELSE IF ~({"email", "task", "round", "nonce"} \subseteq DOMAIN data)
       THEN \* KeyError leaves the handler
            /\ last' = Last(data, None, "KeyError", TRUE, FALSE, FALSE, FALSE)
            /\ UNCHANGED <<jobs, notifLog>>
       ELSE LET processed == ledger
                key == KeyOfData(data)
            IN  IF IsDuplicate(processed, key)
                THEN \E ok \in BOOLEAN :
                        /\ notifLog' = notifLog \cup
                               {Notification("intake", nReceived + 1, key, processed[key])}
                        /\ last' = Last(data, key, "ok", TRUE, TRUE, ok, FALSE)
                        /\ UNCHANGED jobs
                ELSE /\ jobs' = Append(jobs, NewJob(data))
                     /\ last' = Last(data, key, "accepted", TRUE, FALSE, FALSE, TRUE)
                     /\ UNCHANGED notifLog

Receive == \E data \in Requests : receive_request(data)

\* the except branch lacks its return
AfterAcquire_NoReturn(got) == "gen"

\* lines 50-54: go on with the repo, return without it
AfterAcquire(got) == IF got THEN "gen" ELSE "aborted"

\* process_request, lines 41-54: decode the attachments (outside any try), get or
\* create the repo
AcquireRepo(j) ==
    /\ At(j, "start")
    /\ IF decode_attachments_raises(Get(jobs[j].data, "attachments", <<>>))
       THEN SetJob(j, [jobs[j] EXCEPT !.pc = "crashed"])
       ELSE \E ok \in BOOLEAN :
              LET got == ok /\ Has(jobs[j].data, "brief")
              IN  SetJob(j, [jobs[j] EXCEPT
                     !.repo = IF got THEN "ok" ELSE "failed",
                     !.pc = AfterAcquire(got)])
    /\ UNCHANGED <<ledger, repoHead, notifLog, nReceived, last, gen, studyVars>>

\* the attachment loop runs in every round
AfterGenerate_AnyRound(round_num, saved_info) ==
    IF saved_info # <<>> THEN "atts" ELSE "files"

\* lines 79-99: the attachment loop is under `if round_num == 1`, the else branch
\* only prints
AfterGenerate(round_num, saved_info) ==
    IF round_num = 1 /\ saved_info # <<>> THEN "atts" ELSE "files"

\* lines 56-76: previous README, generate_app_code
Generate(j) ==
    /\ At(j, "gen")
    /\ LET job == jobs[j]
           round_num == Get(job.data, "round", 1)
           saved == decode_attachments(Get(job.data, "attachments", <<>>))
       IN \E outcome \in PipelineGenOutcomes :
            LET res == generate_app_code(Get(job.data, "brief", <<>>), <<>>,
                           summarize_attachment_meta(saved), round_num, outcome)
            IN  IF res.raised \/ ~Has(job.data, "brief")
                THEN SetJob(j, [job EXCEPT !.pc = "crashed"])
                ELSE SetJob(j, [job EXCEPT
                        !.files = DOMAIN res.files, !.saved = saved,
                        !.pc = AfterGenerate(round_num, saved)])
    /\ UNCHANGED <<ledger, repoHead, notifLog, nReceived, last, gen, studyVars>>

\* the try is around the loop: the first iteration that raises ends it
AfterAttachment_TryAroundLoop(idx, n, raised) ==
    IF raised \/ idx = n THEN "files" ELSE "atts"

\* lines 83-96: the try is inside the loop, so an iteration that raised is
\* followed by the next one like one that did not
AfterAttachment(idx, n, raised) == IF idx = n THEN "files" ELSE "atts"

\* lines 83-96: one iteration of the attachment loop
CommitAttachment(j) ==
    /\ At(j, "atts")
    /\ LET job == jobs[j]
           att == job.saved[job.idx]
       IN  IF IsTextAtt(att)
           THEN \E ok \in BOOLEAN :
                  /\ SetJob(j, [job EXCEPT
                        !.did = @ \cup {AttPath(att)},
                        !.failed = IF ok THEN @ ELSE @ \cup {AttPath(att)},
                        !.idx = @ + 1,
                        !.pc = AfterAttachment(job.idx, Len(job.saved), ~ok)])
                  /\ repoHead' = IF ok THEN Commit(j, "attachment", job.idx) ELSE repoHead
           ELSE \E main_ok \in BOOLEAN, b64_ok \in BOOLEAN :
                  /\ SetJob(j, [job EXCEPT
                        !.did = @ \cup {AttPath(att)}
                                  \cup (IF main_ok THEN {B64Path(att)} ELSE {}),
                        !.failed = @ \cup (IF main_ok THEN {} ELSE {AttPath(att)})
                                     \cup (IF main_ok /\ ~b64_ok THEN {B64Path(att)} ELSE {}),
                        !.idx = @ + 1,
                        !.pc = AfterAttachment(job.idx, Len(job.saved),
                                               ~(main_ok /\ b64_ok))])
                  /\ repoHead' = IF main_ok THEN Commit(j, "attachment", job.idx) ELSE repoHead
    /\ UNCHANGED <<ledger, notifLog, nReceived, last, gen, studyVars>>

\* lines 101-106: the loop over the generated files
CommitFiles(j) ==
    /\ At(j, "files")
    /\ LET job == jobs[j]
           names == { Effect(f) : f \in job.files }
       IN \E oks \in SUBSET names :
            /\ SetJob(j, [job EXCEPT
                  !.did = @ \cup names, !.pc = "license"])
            /\ repoHead' = IF oks # {} THEN Commit(j, "files", 0) ELSE repoHead
    /\ UNCHANGED <<ledger, notifLog, nReceived, last, gen, studyVars>>

\* lines 108-113
CommitLicense(j) ==
    /\ At(j, "license")
    /\ \E ok \in BOOLEAN :
         /\ SetJob(j, [jobs[j] EXCEPT
               !.did = @ \cup {Effect("LICENSE")},
               !.pc = "pages"])
         /\ repoHead' = IF ok THEN Commit(j, "LICENSE", 0) ELSE repoHead
    /\ UNCHANGED <<ledger, notifLog, nReceived, last, gen, studyVars>>

\* What the Pages API call ended in: "accepted" a status among 201, 204, 202,
\* "refused" any other status, "unreachable" httpx.post raised.
PagesOutcomes == {"accepted", "refused", "unreachable"}

\* enable_pages: True for an accepted call, False otherwise, never raises
enable_pages(outcome) == outcome = "accepted"

\* the URL is derived whatever enable_pages returned
pages_url_for_Assumed(round_num, pages_ok, task_id) == PagesUrl(task_id)

\* lines 116-122: the URL in round 1 only if enable_pages returned True, the
\* assumed URL in round 2
pages_url_for(round_num, pages_ok, task_id) ==
    IF round_num = 1
    THEN IF pages_ok THEN PagesUrl(task_id) ELSE None
    ELSE PagesUrl(task_id)

\* lines 115-141: enable_pages in round 1, the assumed URL otherwise; the latest
\* commit sha; the payload
Publish(j) ==
    /\ At(j, "pages")
    /\ LET job == jobs[j]
           task_id == job.data["task"]
           round_num == Get(job.data, "round", 1)
       IN \E outcome \in (IF round_num = 1 THEN PagesOutcomes ELSE {"accepted"}),
             sha_ok \in BOOLEAN :
            LET pages_ok == enable_pages(outcome)
                pages_url == pages_url_for(round_num, pages_ok, task_id)
                commit_sha == IF sha_ok THEN repoHead ELSE None
            IN  SetJob(j, [job EXCEPT
                   !.did = IF round_num = 1 THEN @ \cup {Effect("enable_pages")} ELSE @,
                   !.failed = IF round_num = 1 /\ ~pages_ok
                              THEN @ \cup {Effect("enable_pages")} ELSE @,
                   !.payload = Payload(job.data, round_num, commit_sha, pages_url),
                   !.pc = "notify"])
    /\ UNCHANGED <<ledger, repoHead, notifLog, nReceived, last, gen, studyVars>>

\* a notifier call that raised ends the execution
AfterNotify_ReturnOnFailure(ok) == IF ok THEN "save" ELSE "done"

\* lines 143-148: the except branch only prints, Step 9 follows either way
AfterNotify(ok) == "save"

\* lines 143-151: notify_evaluation_server, load_processed, processed[key] = payload
Notify(j) ==
    /\ At(j, "notify")
    /\ LET job == jobs[j]
           key == KeyOfData(job.data)
       IN \E ok \in BOOLEAN :
          /\ notifLog' = notifLog \cup {Notification("job", j, key, job.payload)}
          /\ SetJob(j, [job EXCEPT
               !.did = @ \cup {Effect("notify")},
               !.failed = IF ok THEN @ ELSE @ \cup {Effect("notify")},
               !.processed = [k \in (DOMAIN ledger) \cup {key} |->
                                 IF k = key THEN job.payload ELSE ledger[k]],
               !.pc = AfterNotify(ok)])
    /\ UNCHANGED <<ledger, repoHead, nReceived, last, gen, studyVars>>

\* save_processed: open(PROCESSED_PATH, "w") truncates the file
SaveOpen(j) ==
    /\ At(j, "save")
    /\ ledger' = <<>>
    /\ SetJob(j, [jobs[j] EXCEPT !.pc = "dump"])
    /\ UNCHANGED <<repoHead, notifLog, nReceived, last, gen, studyVars>>

\* save_processed: json.dump writes the dict and the file is closed
SaveDump(j) ==
    /\ At(j, "dump")
    /\ ledger' = jobs[j].processed
    /\ SetJob(j, [jobs[j] EXCEPT !.did = @ \cup {Effect("ledger_write")},
                                   !.processed = <<>>, !.payload = <<>>, !.pc = "done"])
    /\ UNCHANGED <<repoHead, notifLog, nReceived, last, gen, studyVars>>

Next ==
    \/ Receive
    \/ \E j \in JobIds : AcquireRepo(j)
    \/ \E j \in JobIds : Generate(j)
    \/ \E j \in JobIds : CommitAttachment(j)
    \/ \E j \in JobIds : CommitFiles(j)
    \/ \E j \in JobIds : CommitLicense(j)
    \/ \E j \in JobIds : Publish(j)
    \/ \E j \in JobIds : Notify(j)
    \/ \E j \in JobIds : SaveOpen(j)
    \/ \E j \in JobIds : SaveDump(j)

Spec == Init /\ [][Next]_vars

----------------------------------------------------------------------------
(* generate_app_code on its own: one call, its arguments and the generator's *)
(* answer drawn from bounded sets.                                           *)

RECURSIVE SeqsUpTo(_, _)
SeqsUpTo(S, n) ==
    IF n = 0 THEN { <<>> }
    ELSE LET shorter == SeqsUpTo(S, n - 1)
         IN  shorter \cup { Append(t, x) : t \in shorter, x \in S }

GenAlphabet == {"F", "M", "W", "c"}
Briefs == SeqsUpTo(GenAlphabet, MaxBrief)
GenOutcomes ==
    { GenOutcome(k, <<>>) : k \in GenFailures \cup {"nonstr"} }
    \cup { GenOutcome("text", t) : t \in SeqsUpTo(GenAlphabet, MaxBrief) \ { <<>> } }

InitGen ==
    /\ ledger = <<>>
    /\ jobs = <<>>
    /\ repoHead = None
    /\ notifLog = {}
    /\ nReceived = 0
    /\ last = Last(<<>>, None, "none", FALSE, FALSE, FALSE, FALSE)
    /\ gen \in [ brief : Briefs, checks_text : { <<>>, <<"c">> }, round_num : Rounds,
                 outcome : GenOutcomes, called : {FALSE}, raised : {FALSE},
                 files : { <<>> } ]
    /\ keyed = NoKeyed
    /\ scratch = <<>> /\ workers = <<>>
    /\ repos = {} /\ callers = <<>>
    /\ dec = NoDec

GenCall ==
    /\ ~gen.called
    /\ LET res == generate_app_code(gen.brief, gen.checks_text, <<>>, gen.round_num,
                                    gen.outcome)
       IN  gen' = [gen EXCEPT !.called = TRUE, !.raised = res.raised, !.files = res.files]
    /\ UNCHANGED <<ledger, jobs, repoHead, notifLog, nReceived, last, studyVars>>

NextGen == GenCall

SpecGen == InitGen /\ [][NextGen]_vars

----------------------------------------------------------------------------
(* The ledger key on its own: the key of two requests, computed as            *)
(* receive_request and process_request compute it.  A field value is a text   *)
(* over an ordinary character and the colon.                                  *)

MaxField == 2

\* no request handled, no execution, nothing on the repository
PipelineIdle ==
    /\ ledger = <<>>
    /\ jobs = <<>>
    /\ repoHead = None
    /\ notifLog = {}
    /\ nReceived = 0
    /\ last = Last(<<>>, None, "none", FALSE, FALSE, FALSE, FALSE)

FieldTexts == SeqsUpTo({"a", ":"}, MaxField)
Tuples == [ email : FieldTexts, task : FieldTexts, round : Rounds, nonce : Nonces ]

InitKey ==
    /\ PipelineIdle
    /\ gen = NoGen
    /\ keyed \in [ a : Tuples, b : Tuples, called : {FALSE}, key_a : {None}, key_b : {None} ]
    /\ scratch = <<>> /\ workers = <<>>
    /\ repos = {} /\ callers = <<>>
    /\ dec = NoDec

\* lines 184 and 150: the f-string, for both requests
KeyCall ==
    /\ ~keyed.called
    /\ keyed' = [keyed EXCEPT !.called = TRUE, !.key_a = KeyOfData(keyed.a),
                               !.key_b = KeyOfData(keyed.b)]
    /\ UNCHANGED <<ledger, jobs, repoHead, notifLog, nReceived, last, gen, attVars, repoVars, dec>>

NextKey == KeyCall

SpecKey == InitKey /\ [][NextKey]_vars

----------------------------------------------------------------------------
(* The scratch directory: round-1 executions that run concurrently, each with *)
(* one attachment that is a well-formed data: URI.  Every execution decodes   *)
(* its attachment twice into TMP_DIR / name (process_request line 46 and      *)
(* generate_app_code line 87) and reads the file back when it commits it.     *)

MaxWorkers == 2

AttNames == { <<"a", ".png">>, <<"b", ".csv">> }
AttBytes == { <<"x">>, <<"y">> }

NewWorker(name, data) ==
    [ name |-> name, data |-> data, pc |-> "open1", content_bytes |-> <<>>,
      committed |-> FALSE ]

InitAtt ==
    /\ PipelineIdle
    /\ gen = NoGen
    /\ keyed = NoKeyed
    /\ scratch = <<>>
    /\ workers \in [ 1..MaxWorkers -> { NewWorker(n, d) : n \in AttNames, d \in AttBytes } ]
    /\ repos = {} /\ callers = <<>>
    /\ dec = NoDec

WorkerIds == DOMAIN workers
SetWorker(w, r) == workers' = [workers EXCEPT ![w] = r]
\* the file `name` of the scratch directory gets the content `bytes`
WriteFile(name, bytes) ==
    [ f \in (DOMAIN scratch) \cup {name} |-> IF f = name THEN bytes ELSE scratch[f] ]

\* the pc after each write of decode_attachments
AfterWrite(pc) == IF pc = "write1" THEN "open2" ELSE "read"

\* decode_attachments line 28: open(path, "wb") creates or truncates the file
OpenScratch(w) ==
    /\ w \in WorkerIds /\ workers[w].pc \in {"open1", "open2"}
    /\ scratch' = WriteFile(workers[w].name, <<>>)
    /\ SetWorker(w, [workers[w] EXCEPT
           !.pc = IF @ = "open1" THEN "write1" ELSE "write2"])
    /\ UNCHANGED <<ledger, jobs, repoHead, notifLog, nReceived, last, gen, keyed, repoVars, dec>>

\* decode_attachments line 29: f.write(data), and the file is closed
WriteScratch(w) ==
    /\ w \in WorkerIds /\ workers[w].pc \in {"write1", "write2"}
    /\ scratch' = WriteFile(workers[w].name, workers[w].data)
    /\ SetWorker(w, [workers[w] EXCEPT !.pc = AfterWrite(@)])
    /\ UNCHANGED <<ledger, jobs, repoHead, notifLog, nReceived, last, gen, keyed, repoVars, dec>>

\* main.py lines 85-86: the bytes are read back from att["path"]
content_bytes(w) == scratch[workers[w].name]

\* main.py lines 84-96: one iteration of the attachment loop: read the file, commit
\* its bytes under attachments/<name>; the commit may fail
ReadAndCommit(w) ==
    /\ w \in WorkerIds /\ workers[w].pc = "read"
    /\ \E ok \in BOOLEAN :
         SetWorker(w, [workers[w] EXCEPT
            !.content_bytes = content_bytes(w), !.committed = ok, !.pc = "end"])
    /\ UNCHANGED <<ledger, jobs, repoHead, notifLog, nReceived, last, gen, keyed, scratch,
                   repoVars, dec>>

NextAtt ==
    \/ \E w \in WorkerIds : OpenScratch(w)
    \/ \E w \in WorkerIds : WriteScratch(w)
    \/ \E w \in WorkerIds : ReadAndCommit(w)

SpecAtt == InitAtt /\ [][NextAtt]_vars

----------------------------------------------------------------------------
(* create_repo on its own: calls that run concurrently against one account.   *)
(* A call looks the repository up, and creates it when the lookup answered    *)
(* 404.  Either request to the API can also fail for a reason of its own.     *)

MaxCallers == 2

RepoNames == { <<"t">>, <<"u">> }

NewCaller(repo_name) == [ repo_name |-> repo_name, pc |-> "get_repo", result |-> "none" ]

InitRepo ==
    /\ PipelineIdle
    /\ gen = NoGen
    /\ keyed = NoKeyed
    /\ scratch = <<>> /\ workers = <<>>
    /\ repos \in SUBSET RepoNames
    /\ callers \in [ 1..MaxCallers -> { NewCaller(n) : n \in RepoNames } ]
    /\ dec = NoDec

CallerIds == DOMAIN callers
SetCaller(c, r) == callers' = [callers EXCEPT ![c] = r]

\* line 31: user.create_repo on a name that exists is refused by the API with a
\* GithubException (422, name already exists on this account), which nothing catches
create_outcome(exists) == IF exists THEN "already_exists" ELSE "handle"

\* lines 22-29: user.get_repo returns the repository, or raises: with status 404
\* the call goes on to the creation, with any other status it re-raises
GetRepo(c) ==
    /\ c \in CallerIds /\ callers[c].pc = "get_repo"
    /\ \E fault \in BOOLEAN :
         SetCaller(c, IF fault
                      THEN [callers[c] EXCEPT !.pc = "raised", !.result = "api_error"]
                      ELSE IF callers[c].repo_name \in repos
                      THEN [callers[c] EXCEPT !.pc = "returned", !.result = "handle"]
                      ELSE [callers[c] EXCEPT !.pc = "create_repo"])
    /\ UNCHANGED <<ledger, jobs, repoHead, notifLog, nReceived, last, gen, keyed, attVars,
                   repos, dec>>

\* lines 31-38: user.create_repo, outside any try
CreateRepo(c) ==
    /\ c \in CallerIds /\ callers[c].pc = "create_repo"
    /\ \E fault \in BOOLEAN :
         LET outcome == IF fault THEN "api_error"
                        ELSE create_outcome(callers[c].repo_name \in repos)
         IN  /\ SetCaller(c, [callers[c] EXCEPT
                    !.pc = IF outcome = "handle" THEN "returned" ELSE "raised",
                    !.result = outcome])
             /\ repos' = IF outcome = "handle" THEN repos \cup {callers[c].repo_name}
                         ELSE repos
    /\ UNCHANGED <<ledger, jobs, repoHead, notifLog, nReceived, last, gen, keyed, attVars,
                   dec>>

NextRepo ==
    \/ \E c \in CallerIds : GetRepo(c)
    \/ \E c \in CallerIds : CreateRepo(c)

SpecRepo == InitRepo /\ [][NextRepo]_vars

----------------------------------------------------------------------------
(* decode_attachments on its own: one call on a list of attachment objects.   *)

MaxAtts == 2

UrlKinds == {"data", "http", "badb64", "junkb64", "absent", "nonstr"}
Entries == { Att(n, "image", u) : n \in { <<"a", ".png">>, <<"/">> }, u \in UrlKinds }

InitDec ==
    /\ PipelineIdle
    /\ gen = NoGen
    /\ keyed = NoKeyed
    /\ scratch = <<>> /\ workers = <<>>
    /\ repos = {} /\ callers = <<>>
    /\ dec \in [ atts : SeqsUpTo(Entries, MaxAtts), called : {FALSE}, raised : {FALSE},
                 saved : { <<>> } ]

DecodeCall ==
    /\ ~dec.called
    /\ dec' = [dec EXCEPT
                 !.called = TRUE,
                 !.raised = decode_attachments_raises(dec.atts),
                 !.saved = IF decode_attachments_raises(dec.atts) THEN <<>>
                           ELSE decode_attachments(dec.atts)]
    /\ UNCHANGED <<ledger, jobs, repoHead, notifLog, nReceived, last, gen, keyed, attVars,
                   repoVars>>

NextDec == DecodeCall

SpecDec == InitDec /\ [][NextDec]_vars

----------------------------------------------------------------------------
(* Properties *)

Terminal == {"done", "aborted", "crashed"}
Complete(data) == Required \subseteq DOMAIN data
KeysSeen == { KeyOfData(jobs[j].data) : j \in JobIds }
ExecutionsOf(k) == { j \in JobIds : KeyOfData(jobs[j].data) = k }
NotifiedBy(j) == { e \in notifLog : e.by = "job" /\ e.n = j }
RoundOf(j) == Get(jobs[j].data, "round", 1)

\* C1: a valid request submitted twice with the same identity tuple, at any relative
\* timing, runs process_request exactly once in total, and the notifier is called
\* exactly twice, once per submission, with identical payloads.  Stated for the runs
\* in which both submissions have been handled to the end and no execution ended
\* early (none failed to acquire the repository, none raised).
C1_Idempotent ==
    \A k \in KeysSeen :
        LET execs == { j \in ExecutionsOf(k) : Complete(jobs[j].data) }
            hits == { e \in notifLog : e.by = "intake" /\ e.key = k }
            calls == { e \in notifLog : e.key = k }
        IN  ( /\ Cardinality(execs) + Cardinality(hits) = 2
              /\ \A j \in ExecutionsOf(k) : jobs[j].pc = "done" )
            => /\ Cardinality(execs) = 1
               /\ Cardinality(calls) = 2
               /\ \A a, b \in calls : a.payload = b.payload

\* C2: no reachable state has two process_request executions scheduled or running
\* for the same ledger key: of two submissions with the same identity tuple at most
\* one passes the miss-check.
C2_OneExecutionPerKey ==
    \A i, j \in JobIds :
        ( /\ i # j
          /\ jobs[i].pc \notin Terminal
          /\ jobs[j].pc \notin Terminal )
        => KeyOfData(jobs[i].data) # KeyOfData(jobs[j].data)

\* C3: an execution whose repository acquisition failed has returned without any
\* commit attempt, enable_pages call, notifier call or ledger write, and while every
\* execution for a key ended that way the ledger has no entry for the key, so a
\* resubmission takes the miss path again.
C3_FatalShortCircuit ==
    /\ \A j \in JobIds :
          jobs[j].repo = "failed" =>
             /\ jobs[j].pc = "aborted"
             /\ jobs[j].did = {}
             /\ NotifiedBy(j) = {}
    /\ \A k \in KeysSeen :
          (\A j \in ExecutionsOf(k) : jobs[j].repo = "failed") => k \notin DOMAIN ledger

\* create_repo failed for a complete request, and the resubmission of the same
\* identity tuple was scheduled again
C3_Witness ==
    /\ Len(jobs) = 2
    /\ jobs[1].repo = "failed" /\ Complete(jobs[1].data)
    /\ KeyOfData(jobs[2].data) = KeyOfData(jobs[1].data)
    /\ last.resp = "accepted"

AttachmentFailed(j) ==
    \E i \in 1..Len(jobs[j].saved) :
        jobs[j].failed \cap {AttPath(jobs[j].saved[i]), B64Path(jobs[j].saved[i])} # {}

\* the stages of process_request in the order the code runs them
Stage(pc) ==
    CASE pc = "start" -> 0 [] pc = "gen" -> 1 [] pc = "atts" -> 2 [] pc = "files" -> 3
      [] pc = "license" -> 4 [] pc = "pages" -> 5 [] pc = "notify" -> 6
      [] pc = "save" -> 7 [] pc = "dump" -> 8 [] pc = "done" -> 9 [] OTHER -> -1

\* C4: in a round-1 execution that acquired its repository, once an attachment
\* commit has failed the execution has not ended early, and by the time it is past
\* each later stage it has made the commit attempt for every attachment, for every
\* generated file and for LICENSE, and the notifier call.
C4_Isolation ==
    \A j \in JobIds :
        LET job == jobs[j]
        IN  (job.repo = "ok" /\ RoundOf(j) = 1 /\ AttachmentFailed(j)) =>
               /\ job.pc \notin {"aborted", "crashed"}
               /\ \A i \in 1..Len(job.saved) :
                     (Stage(job.pc) > Stage("atts") \/ i < job.idx)
                         => AttPath(job.saved[i]) \in job.did
               /\ Stage(job.pc) > Stage("files")
                     => { Effect(f) : f \in job.files } \subseteq job.did
                        /\ job.files = {"index.html", "README.md"}
               /\ Stage(job.pc) > Stage("license") => Effect("LICENSE") \in job.did
               /\ Stage(job.pc) > Stage("notify")
                     => Effect("notify") \in job.did /\ NotifiedBy(j) # {}

\* the first attachment's commit failed, the second was attempted, the run finished
C4_Witness ==
    \E j \in JobIds :
        /\ jobs[j].pc = "done" /\ RoundOf(j) = 1 /\ Len(jobs[j].saved) = 2
        /\ AttPath(jobs[j].saved[1]) \in jobs[j].failed
        /\ AttPath(jobs[j].saved[2]) \in jobs[j].did
        /\ Effect("LICENSE") \in jobs[j].did

\* C5: a receive_request call whose secret is not the configured one returns
\* {"error": "Invalid secret"} and has no side effect: it does not read the ledger,
\* changes neither the ledger nor the repository, schedules nothing, notifies nobody.
C5_InvalidSecretNoEffect ==
    [][ (nReceived' # nReceived /\ ~last'.secret_ok) =>
           /\ last'.resp = "Invalid secret"
           /\ ~last'.read /\ ~last'.notified /\ ~last'.scheduled
           /\ UNCHANGED <<ledger, jobs, repoHead, notifLog>> ]_vars

\* a wrong secret was rejected while an execution was in flight
C5_Witness ==
    /\ last.resp = "Invalid secret" /\ "secret" \notin last.missing
    /\ \E j \in JobIds : jobs[j].pc \notin Terminal

\* the request of the step just taken carried the configured secret and all the
\* fields of the key, and its key was in the ledger when the step began
HitStep ==
    /\ nReceived' # nReceived
    /\ last'.secret_ok
    /\ last'.missing \cap {"email", "task", "round", "nonce"} = {}
    /\ last'.key \in DOMAIN ledger

\* C6: a receive_request call that finds its key in the ledger calls the notifier
\* exactly once, with the stored outcome, schedules nothing, commits nothing, leaves
\* the ledger unchanged and returns status "ok", whether or not the notifier call
\* succeeded.
C6_DuplicateOnlyRenotifies ==
    [][ HitStep =>
           /\ last'.resp = "ok" /\ last'.notified /\ ~last'.scheduled
           /\ notifLog' \ notifLog =
                 { Notification("intake", nReceived', last'.key, ledger[last'.key]) }
           /\ UNCHANGED <<ledger, jobs, repoHead>> ]_vars

\* a duplicate was answered "ok" although its notifier call failed
C6_Witness ==
    /\ last.resp = "ok" /\ last.notified /\ ~last.notify_ok
    /\ last.key \in DOMAIN ledger

\* C7: a request that lacks a required field is answered with a rejection value, not
\* with an unhandled exception, and is neither scheduled nor re-notified.
C7_MissingFieldRejected ==
    (last.resp # "none" /\ last.missing # {}) =>
        /\ last.resp \notin {"KeyError", "accepted", "ok"}
        /\ ~last.scheduled /\ ~last.notified

\* C8: whenever the generator call fails, generate_app_code returns without raising
\* an artifact set with index.html and README.md, both non-empty.
C8_FallbackTotality ==
    (gen.called /\ gen.outcome.kind \in GenFailures) =>
        /\ ~gen.raised
        /\ DOMAIN gen.files = {"index.html", "README.md"}
        /\ \A f \in DOMAIN gen.files : gen.files[f] # <<>>

\* C9: a key that is in the persisted ledger is in it in every later state.
C9_LedgerMonotone ==
    [][ \A k \in DOMAIN ledger : k \in DOMAIN ledger' ]_vars

\* C10: the outcome stored under a key never changes after the first write for it.
C10_OutcomeImmutable ==
    [][ \A k \in (DOMAIN ledger) \cap (DOMAIN ledger') : ledger'[k] = ledger[k] ]_vars

\* C11: an execution that has ended either failed to acquire its repository and
\* aborted there, or acquired it, ran through every later stage and wrote its ledger
\* entry; no execution that acquired its repository ends without the ledger write.
C11_EndsAbortedOrPersisted ==
    \A j \in JobIds :
        jobs[j].pc \in Terminal =>
            \/ jobs[j].repo = "failed" /\ jobs[j].pc = "aborted"
            \/ /\ jobs[j].repo = "ok" /\ jobs[j].pc = "done"
               /\ Effect("ledger_write") \in jobs[j].did

\* C12: an execution that acquired its repository calls the notifier before it
\* writes the ledger; once the notifier has been called the execution goes on to
\* the ledger write whether the call succeeded or failed; and every outcome stored
\* in the ledger under a key is a payload that an execution passed to the notifier
\* for that key, so no key has a ledger entry without an earlier notifier call.
C12_NotifyThenPersist ==
    /\ \A j \in JobIds :
          LET job == jobs[j]
          IN  /\ (job.pc \in {"save", "dump"} \/ Effect("ledger_write") \in job.did)
                    => Effect("notify") \in job.did /\ NotifiedBy(j) # {}
              /\ Effect("notify") \in job.did
                    => /\ job.pc \in {"save", "dump", "done"}
                       /\ job.pc = "done" => Effect("ledger_write") \in job.did
    /\ \A k \in DOMAIN ledger :
          \E e \in notifLog : e.by = "job" /\ e.key = k /\ e.payload = ledger[k]

\* an execution whose notifier call failed has written its payload to the ledger
C12_Witness ==
    \E j \in JobIds :
        /\ jobs[j].pc = "done" /\ Effect("notify") \in jobs[j].failed
        /\ KeyOfData(jobs[j].data) \in DOMAIN ledger
        /\ \E e \in NotifiedBy(j) : e.payload = ledger[KeyOfData(jobs[j].data)]

\* the payloads execution j has assembled: the one it holds, the ones it passed on
OutcomesOf(j) ==
    { e.payload : e \in NotifiedBy(j) }
        \cup (IF jobs[j].payload = <<>> THEN {} ELSE {jobs[j].payload})

\* C13: in a round-1 execution the outcome's pages_url is non-null exactly when
\* enable_pages was called and reported success; an execution whose activation
\* failed has not ended early: it has its outcome with a null pages_url and the
\* commit id captured, and goes on to the notifier call and the ledger write.
C13_PagesUrlIffActivated ==
    \A j \in JobIds :
        LET job == jobs[j]
            activated == Effect("enable_pages") \in job.did \ job.failed
        IN  RoundOf(j) = 1 =>
              /\ \A o \in OutcomesOf(j) : (o.pages_url # None) <=> activated
              /\ Effect("enable_pages") \in job.failed =>
                    /\ job.pc \in {"notify", "save", "dump", "done"}
                    /\ Stage(job.pc) > Stage("notify") => NotifiedBy(j) # {}
                    /\ job.pc = "done" => Effect("ledger_write") \in job.did

\* a round-1 execution whose activation failed stored an outcome with no pages_url
C13_Witness ==
    \E j \in JobIds :
        /\ RoundOf(j) = 1 /\ jobs[j].pc = "done"
        /\ Effect("enable_pages") \in jobs[j].failed
        /\ KeyOfData(jobs[j].data) \in DOMAIN ledger
        /\ ledger[KeyOfData(jobs[j].data)].pages_url = None

\* C14: a round-2 execution makes no enable_pages call, and the pages_url of its
\* outcome equals the pages_url of the outcome of every round-1 execution for the
\* same task, whatever that execution's activation returned.
C14_Round2ReusesPagesUrl ==
    \A j \in JobIds :
        RoundOf(j) = 2 =>
          /\ Effect("enable_pages") \notin jobs[j].did
          /\ \A i \in JobIds :
                (RoundOf(i) = 1 /\ jobs[i].data["task"] = jobs[j].data["task"]) =>
                    \A o1 \in OutcomesOf(i), o2 \in OutcomesOf(j) :
                        o2.pages_url = o1.pages_url

\* C15: two requests whose identity tuples (email, task, round, nonce) differ in at
\* least one field get different ledger keys, also when field values contain
\* colons.
C15_KeyInjective ==
    (keyed.called /\ keyed.a # keyed.b) => keyed.key_a # keyed.key_b

\* C16: the bytes a round-1 execution has committed under attachments/<name> are
\* the bytes decoded from its own request's attachment of that name, whatever other
\* executions did in between, those with an attachment of the same name included.
C16_OwnAttachmentBytes ==
    \A w \in WorkerIds :
        workers[w].committed => workers[w].content_bytes = workers[w].data

\* C17: a create_repo call that has returned returned a handle to a repository that
\* exists under the requested name, and no call, concurrent calls for the same name
\* included, has failed because the repository already exists.
C17_CreateRepoIdempotent ==
    \A c \in CallerIds :
        /\ callers[c].pc = "returned"
              => callers[c].result = "handle" /\ callers[c].repo_name \in repos
        /\ callers[c].result # "already_exists"

\* a data: URI whose payload is base64, under a name that can be written
WellFormed(a) == a.url = "data" /\ Writable(a.name)

\* C18: for every attachment list decode_attachments returns without raising, and
\* returns the well-formed entries of the list, all of them, in input order: an
\* entry that is not a data: URI, has no url or a url that is not text, does not
\* decode or cannot be written is left out on its own.
C18_MalformedSkipped ==
    dec.called =>
        /\ ~dec.raised
        /\ dec.saved = SelectSeq(dec.atts, WellFormed)

\* C19: a round-2 execution never enters the attachment loop and makes no commit
\* under attachments/, neither of a file nor of its .b64 copy, and it still makes
\* the commit of every generated file and of LICENSE.
C19_NoAttachmentCommitInRound2 ==
    \A j \in JobIds :
        LET job == jobs[j]
        IN  RoundOf(j) = 2 =>
              /\ job.pc # "atts"
              /\ \A path \in job.did : Head(path) # "attachments/"
              /\ ~(Len(repoHead) = 3 /\ repoHead[1] = j /\ repoHead[2] = "attachment")
              /\ Stage(job.pc) > Stage("files")
                    => /\ job.files = {"index.html", "README.md"}
                       /\ { Effect(f) : f \in job.files } \subseteq job.did
              /\ Stage(job.pc) > Stage("license") => Effect("LICENSE") \in job.did

\* a round-2 execution whose request carried attachments that decode has finished,
\* with the generated files and LICENSE committed and nothing else
C19_Witness ==
    \E j \in JobIds :
        /\ RoundOf(j) = 2 /\ jobs[j].pc = "done" /\ jobs[j].saved # <<>>
        /\ jobs[j].did = { Effect(f) : f \in {"index.html", "README.md", "LICENSE",
                                               "notify", "ledger_write"} }

====
